---- MODULE Spec2Model ----
(***************************************************************************)
(* A model of src/block-sync.js: the calendar block synchroniser.          *)
(*                                                                         *)
(* One run is reactiveEntryPoint or proactiveEntryPoint: the change feed   *)
(* of the scheduler calendar and of the home calendar is fetched, then     *)
(* processCalendar reconciles each list against the blocker calendar.      *)
(* The Calendar Service and the Property Store are the environment: every  *)
(* call the code makes to them is answered nondeterministically within     *)
(* the contract of the service (a page of events, a failure, a search      *)
(* result that may not show a block inserted earlier in the same run).     *)
(***************************************************************************)
EXTENDS Integers, Sequences, FiniteSets, TLC

VARIABLES
    pc,           \* where the entry point is: idle, fetch, process, done, aborted
    mode,         \* which entry point runs: reactive or proactive
    src,          \* the source calendar being fetched or processed
    runs,         \* entry points started so far
    now,          \* the clock (new Date()), seconds since 2025-01-01T00:00:00Z
    env,          \* the family of answers the services give in this behaviour
    syncTokens,   \* the Property Store's "syncTokens" map: calendar -> token
    fetch,        \* the frame of the running fetchEventsBy... call
    events,       \* schedulerEvents and homeEvents of the entry point
    idx,          \* the loop position of processCalendar in its events
    blockLookupCache,
    crossCalendarBlockTracker,
    blocker,      \* the blocker calendar: the blocks the service holds
    unindexed,    \* ids of blocks inserted in this run: search may miss them
    last,         \* the last loop iteration: its event, lookups and calls
    hist          \* history of the runs, for the properties only

vars == <<pc, mode, src, runs, now, env, syncTokens, fetch, events, idx,
          blockLookupCache, crossCalendarBlockTracker, blocker, unindexed,
          last, hist>>

----------------------------------------------------------------------------
(* Bounds of the model. *)

MaxRuns == 3
MaxEvents == 2
MaxPages == 2

----------------------------------------------------------------------------
(* JavaScript values. null and undefined are both falsy. *)

(* An absent object (null, or a property that is not set) is Null; an     *)
(* absent string is Undefined. A JavaScript array is Arr(<<...>>).         *)

Null == [null |-> TRUE]
Undefined == "undefined"

Arr(s) == [array |-> s]

\* !v for an object-valued v
Falsy(v) == v = Null

\* obj.f for a property holding an object, and for one holding a string
GetObj(obj, f) == IF f \in DOMAIN obj THEN obj[f] ELSE Null
GetStr(obj, f) == IF f \in DOMAIN obj THEN obj[f] ELSE Undefined

\* obj.f = v, and delete obj.f
SetField(obj, f, v) == [k \in DOMAIN obj \cup {f} |-> IF k = f THEN v ELSE obj[k]]
RemoveField(obj, f) == [k \in DOMAIN obj \ {f} |-> obj[k]]

----------------------------------------------------------------------------
(* The script properties (props) of the entry points. *)

schedulerCal == "schedulerCal"
homeCal == "homeCal"
blockerCal == "blockerCal"
homeEmail == "home@example.org"
workEmail == "work@example.org"

SourceCals == {schedulerCal, homeCal}

----------------------------------------------------------------------------
(* Event ids. An id is a short name in the state; IdText gives its text,   *)
(* character by character, which is what the regular expressions of        *)
(* processCalendar read.                                                   *)

Stamp == <<"_", "2", "0", "2", "5", "0", "1", "1", "0",
           "T", "0", "9", "0", "0", "0", "0", "Z">>

IdText == [ par  |-> <<"p">>,                          \* a series or a single event
            inst |-> <<"p">> \o Stamp,                  \* an instance of par
            near |-> <<"p", "_">> \o Tail(Tail(Stamp))  \* p_ and 7 digits: no instance
          ]

Ids == DOMAIN IdText

IsDigit(c) == c \in {"0", "1", "2", "3", "4", "5", "6", "7", "8", "9"}

\* s matches _\d{8}T\d{6}Z
MatchesStamp(s) ==
    /\ Len(s) = 17
    /\ s[1] = "_"
    /\ \A i \in 2..9 : IsDigit(s[i])
    /\ s[10] = "T"
    /\ \A i \in 11..16 : IsDigit(s[i])
    /\ s[17] = "Z"

\* event.id.match(/^.*_\d{8}T\d{6}Z$/)
IsInstanceId(id) ==
    LET t == IdText[id]
    IN  Len(t) >= 17 /\ MatchesStamp(SubSeq(t, Len(t) - 16, Len(t)))

\* a parent id taken without stripping the stamp
ParentEventIdWhole(id) == id

\* event.id.replace(/_\d{8}T\d{6}Z$/, '')
ParentEventId(id) ==
    LET t == IdText[id]
    IN  IF IsInstanceId(id)
        THEN CHOOSE p \in Ids : IdText[p] = SubSeq(t, 1, Len(t) - 17)
        ELSE id

----------------------------------------------------------------------------
(* start and end values. A date-only value is {date}, a date-time value is *)
(* {dateTime, timeZone}; the literals are strings, and ParseDate gives the *)
(* instant new Date(literal) denotes, in seconds since                    *)
(* 2025-01-01T00:00:00Z (a date-only literal is midnight UTC).             *)

SecPerDay == 60 * 60 * 24
Horizon == 90
PastDays == 30

DateOnly(d) == [date |-> d]
DateTime(t, z) == [dateTime |-> t, timeZone |-> z]

ParseDate(lit) ==
    CASE lit = "2025-01-10" -> 9 * SecPerDay
      [] lit = "2025-01-11" -> 10 * SecPerDay
      [] lit = "2025-04-01" -> 90 * SecPerDay
      [] lit = "2025-04-02" -> 91 * SecPerDay
      [] lit = "2025-01-10T09:00:00Z" -> 9 * SecPerDay + 9 * 3600
      [] lit = "2025-01-10T10:00:00Z" -> 9 * SecPerDay + 10 * 3600
      [] lit = "2025-04-02T01:00:00Z" -> 91 * SecPerDay + 3600

\* the clock readings of the model: midnight and 01:00 on 2025-01-01
Clock == {0, 3600}

\* new Date(event.start.dateTime || event.start.date)
EventStartDate(start) ==
    IF GetStr(start, "dateTime") # Undefined
    THEN ParseDate(start.dateTime)
    ELSE ParseDate(start.date)

\* Math.floor((eventStartDate - today) / (1000 * 60 * 60 * 24))
DaysDifference(start, today) == (EventStartDate(start) - today) \div SecPerDay

\* the horizon test with the bound excluded: daysDifference >= 90
BeyondHorizonFrom(start, today) == DaysDifference(start, today) >= Horizon

\* daysDifference > 90
BeyondHorizon(start, today) == DaysDifference(start, today) > Horizon

\* getRelativeDate(daysOffset, 0): midnight of the day daysOffset from today
GetRelativeDate(daysOffset, today) ==
    ((today \div SecPerDay) + daysOffset) * SecPerDay

\* the helper areDatesEqual of processCalendar
areDatesEqual(date1, date2) ==
    IF Falsy(date1) /\ Falsy(date2) THEN TRUE
    ELSE IF Falsy(date1) \/ Falsy(date2) THEN FALSE
    ELSE /\ GetStr(date1, "dateTime") = GetStr(date2, "dateTime")
         /\ GetStr(date1, "timeZone") = GetStr(date2, "timeZone")

\* the helper areRecurrencesEqual of processCalendar; a recurrence is Null
\* or an array of rule strings
areRecurrencesEqual(rec1, rec2) ==
    IF Falsy(rec1) /\ Falsy(rec2) THEN TRUE
    ELSE IF Falsy(rec1) \/ Falsy(rec2) THEN FALSE
    ELSE /\ Len(rec1.array) = Len(rec2.array)
         /\ \A i \in 1..Len(rec1.array) : rec1.array[i] = rec2.array[i]

----------------------------------------------------------------------------
(* The Calendar Service on the blocker calendar. The loop body of          *)
(* processCalendar is computed on a record st of what it reads and writes: *)
(*   cache, tracker      blockLookupCache and crossCalendarBlockTracker    *)
(*   blocker, unindexed  the blocker calendar at the service               *)
(*   calls               the service calls issued so far in the iteration  *)
(*   end                 how the iteration ended, "" while it runs         *)
(*   parentBlock, matchingBlock   the results of the two lookups           *)
(* Each operator gives the set of records the step can end in: one for     *)
(* each answer the service can give.                                       *)

NotCached == [notCached |-> TRUE]
NotLooked == [notLooked |-> TRUE]

Call(op, cal, id, body, ok) == [op |-> op, cal |-> cal, id |-> id, body |-> body, ok |-> ok]

\* a is a substring of b (sequences of characters)
IsInfix(a, b) ==
    \E i \in 1..(Len(b) - Len(a) + 1) : SubSeq(b, i, i + Len(a) - 1) = a

\* The answers of Calendar.Events.list(blockerCalId, {q: eventId}): a free-text
\* search, which returns every indexed block whose description contains q,
\* and may or may not return such a block inserted earlier in this run.
SearchItems(st, q) ==
    LET similar == {b \in st.blocker : IsInfix(IdText[q], IdText[b.description])}
        indexed == {b \in similar : b.id \notin st.unindexed}
    IN  {indexed \cup late : late \in SUBSET (similar \ indexed)}

\* block.description === eventId
ExactMatch(block, eventId) == block.description = eventId

\* a lookup that stores only the blocks it finds, not the misses
checkForBlockHitsOnly(st, eventId) ==
    IF st.cache[eventId] # NotCached
    THEN {[ret |-> st.cache[eventId], st |-> st]}
    ELSE LET asked(ok) == [st EXCEPT !.calls = Append(@, Call("list", blockerCal, eventId, Null, ok))]
             found(items) == {b \in items : ExactMatch(b, eventId)}
             answer(ret) == [ret |-> ret,
                             st |-> [asked(TRUE) EXCEPT !.cache[eventId] = ret]]
         IN  {[ret |-> Null, st |-> [asked(FALSE) EXCEPT !.end = "threw"]]}
             \cup UNION { IF found(items) = {}
                          THEN {[ret |-> Null, st |-> asked(TRUE)]}
                          ELSE {answer(b) : b \in found(items)}
                        : items \in SearchItems(st, eventId) }

\* checkForBlockOnCalendar(blockerCalId, eventId, blockLookupCache, e): the set
\* of [ret, st]: the value returned and the state after, or st.end = "threw"
\* when the list call fails (the exception is not caught).
checkForBlockOnCalendar(st, eventId) ==
    IF st.cache[eventId] # NotCached
    THEN {[ret |-> st.cache[eventId], st |-> st]}
    ELSE LET asked(ok) == [st EXCEPT !.calls = Append(@, Call("list", blockerCal, eventId, Null, ok))]
             found(items) == {b \in items : ExactMatch(b, eventId)}
             answer(ret) == [ret |-> ret,
                             st |-> [asked(TRUE) EXCEPT !.cache[eventId] = ret]]
         IN  {[ret |-> Null, st |-> [asked(FALSE) EXCEPT !.end = "threw"]]}
             \cup UNION { IF found(items) = {}
                          THEN {answer(Null)}
                          ELSE {answer(b) : b \in found(items)}
                        : items \in SearchItems(st, eventId) }

\* the id the service gives an inserted event: one no event of the calendar has
NewId(blocks) ==
    CHOOSE n \in 1..(Cardinality(blocks) + 1) :
        /\ \A b \in blocks : b.id # n
        /\ \A m \in 1..(n - 1) : \E b \in blocks : b.id = m

\* a createEvent that lets the exception of the insert call escape
createEventThrows(st, block) ==
    LET created == SetField(block, "id", NewId(st.blocker))
    IN  { [ret |-> created,
           st |-> [st EXCEPT !.blocker = @ \cup {created},
                             !.unindexed = @ \cup {created.id},
                             !.calls = Append(@, Call("insert", blockerCal, block.description, block, TRUE))]],
          [ret |-> Null,
           st |-> [st EXCEPT !.end = "threw",
                             !.calls = Append(@, Call("insert", blockerCal, block.description, block, FALSE))]] }

\* createEvent(blockerCalId, block): Calendar.Events.insert; the exception
\* is caught and undefined is returned
createEvent(st, block) ==
    LET created == SetField(block, "id", NewId(st.blocker))
    IN  { [ret |-> created,
           st |-> [st EXCEPT !.blocker = @ \cup {created},
                             !.unindexed = @ \cup {created.id},
                             !.calls = Append(@, Call("insert", blockerCal, block.description, block, TRUE))]],
          [ret |-> Null,
           st |-> [st EXCEPT !.calls = Append(@, Call("insert", blockerCal, block.description, block, FALSE))]] }

\* updateEvent(blockerCalId, eventId, event): Calendar.Events.update replaces
\* the event of that id; the exception is caught
updateBlock(st, eventId, event) ==
    { [st EXCEPT !.calls = Append(@, Call("update", blockerCal, eventId, event, FALSE))] }
    \cup { [st EXCEPT !.blocker = {b \in @ : b.id # eventId} \cup {event},
                      !.calls = Append(@, Call("update", blockerCal, eventId, event, TRUE))]
           : x \in {b \in st.blocker : b.id = eventId} }

\* deleteEvent(blockerCalId, eventId): Calendar.Events.remove; the exception
\* is caught
deleteEvent(st, eventId) ==
    { [st EXCEPT !.calls = Append(@, Call("remove", blockerCal, eventId, Null, FALSE))] }
    \cup { [st EXCEPT !.blocker = {b \in @ : b.id # eventId},
                      !.unindexed = @ \ {eventId},
                      !.calls = Append(@, Call("remove", blockerCal, eventId, Null, TRUE))]
           : x \in {b \in st.blocker : b.id = eventId} }

\* updateEvent(sourceCalId, event.id, event): the attendee update on the
\* source calendar; the exception is caught
updateSource(st, sourceCalId, event) ==
    { [st EXCEPT !.calls = Append(@, Call("update", sourceCalId, event.id, event, ok))]
      : ok \in BOOLEAN }

----------------------------------------------------------------------------
(* processCalendar: one iteration of its loop, stage by stage. *)

\* lines 89-118: a recurring instance is skipped when its parent has a block
\* or when it starts beyond the horizon
ResolveRecurrence(st, event, today) ==
    IF ~IsInstanceId(event.id)
    THEN {st}
    ELSE { IF r.st.end = "threw" THEN r.st
           ELSE IF ~Falsy(r.ret)
                THEN [r.st EXCEPT !.end = "parentBlock", !.parentBlock = r.ret]
           ELSE IF Falsy(event.start)
                THEN [r.st EXCEPT !.end = "threw", !.parentBlock = Null]
           ELSE IF BeyondHorizon(event.start, today)
                THEN [r.st EXCEPT !.end = "horizon", !.parentBlock = Null]
           ELSE [r.st EXCEPT !.parentBlock = Null]
           : r \in checkForBlockOnCalendar(st, ParentEventId(event.id)) }

\* event.attendees.map(({ email }) => email).includes(homeEmail)
IncludesHome(attendees) ==
    \E i \in 1..Len(attendees.array) : attendees.array[i] = homeEmail

\* lines 120-133: the home address is added to the source event
AddAttendee(st, event, sourceCalId, addAttendees) ==
    IF addAttendees /\ event.status # "cancelled"
    THEN IF ~Falsy(event.attendees) /\ Len(event.attendees.array) > 0
         THEN IF ~IncludesHome(event.attendees)
              THEN updateSource(st, sourceCalId,
                       [event EXCEPT !.attendees = Arr(Append(@.array, homeEmail))])
              ELSE {st}
         ELSE updateSource(st, sourceCalId,
                  [event EXCEPT !.attendees = Arr(<<homeEmail>>)])
    ELSE {st}

\* lines 178, 190-195: the block as rewritten from the event
RewriteBlock(matchingBlock, event) ==
    LET eventRecurrence == IF ~Falsy(event.recurrence) THEN event.recurrence ELSE Null
        dated == SetField(SetField(matchingBlock, "start", event.start), "end", event.end)
        bare == RemoveField(dated, "recurrence")
    IN  IF ~Falsy(eventRecurrence)
        THEN SetField(bare, "recurrence", eventRecurrence)
        ELSE bare

\* lines 174-178: startChanged || endChanged || recurrenceChanged
BlockDiffers(matchingBlock, event) ==
    LET eventRecurrence == IF ~Falsy(event.recurrence) THEN event.recurrence ELSE Null
        blockRecurrence == GetObj(matchingBlock, "recurrence")
        startChanged == ~areDatesEqual(GetObj(matchingBlock, "start"), event.start)
        endChanged == ~areDatesEqual(GetObj(matchingBlock, "end"), event.end)
        recurrenceChanged == ~areRecurrencesEqual(blockRecurrence, eventRecurrence)
    IN  startChanged \/ endChanged \/ recurrenceChanged

\* lines 213-222: the block built for an event
NewBlock(event) ==
    LET block == [summary |-> "BLOCK", description |-> event.id,
                  start |-> event.start, end |-> event.end,
                  attendees |-> Arr(<<workEmail>>)]
    IN  IF ~Falsy(event.recurrence)
        THEN SetField(block, "recurrence", event.recurrence)
        ELSE block

\* a reconciler that does not consult the tracker
TrackedNever(tracker, id) == FALSE

\* crossCalendarBlockTracker[event.id]
Tracked(tracker, id) == id \in tracker

\* a delete that leaves the cache entry as the lookup set it
MarkDeletedKept(st, id) == st

\* line 145: blockLookupCache[event.id] = null
MarkDeleted(st, id) == [st EXCEPT !.cache[id] = Null]

\* lines 139-231: the decision on the result of the lookup
Decide(st, event, matchingBlock) ==
    IF ~Falsy(matchingBlock)
    THEN IF event.status = "cancelled"
         THEN { MarkDeleted(d, event.id)
                : d \in deleteEvent(st, matchingBlock.id) }
         ELSE IF BlockDiffers(matchingBlock, event)
              THEN LET rewritten == RewriteBlock(matchingBlock, event)
                   IN  { [u EXCEPT !.cache[event.id] = rewritten]
                         : u \in updateBlock(st, matchingBlock.id, rewritten) }
              ELSE {st}
    ELSE IF event.status # "cancelled"
         THEN IF Tracked(st.tracker, event.id)
              THEN {st}
              ELSE { IF ~Falsy(c.ret)
                     THEN [c.st EXCEPT !.cache[event.id] = c.ret]
                     ELSE c.st
                     : c \in createEvent([st EXCEPT !.tracker = @ \cup {event.id}],
                                         NewBlock(event)) }
         ELSE {st}

\* lines 136-231: the lookup of the event's own id, then the decision
Reconcile(st, event) ==
    UNION { IF r.st.end = "threw"
            THEN {r.st}
            ELSE Decide([r.st EXCEPT !.matchingBlock = r.ret], event, r.ret)
            : r \in checkForBlockOnCalendar(st, event.id) }

\* lines 85-232: the loop body for one event
LoopBody(st, event, today, sourceCalId, addAttendees) ==
    UNION { IF s1.end # ""
            THEN {s1}
            ELSE UNION { { [s3 EXCEPT !.end = IF @ = "" THEN "reconciled" ELSE @]
                           : s3 \in Reconcile(s2, event) }
                         : s2 \in AddAttendee(s1, event, sourceCalId, addAttendees) }
            : s1 \in ResolveRecurrence(st, event, today) }

----------------------------------------------------------------------------
(* The environment. A behaviour draws, once, what the services can answer: *)
(* the events the source calendars deliver, the clock readings, the sync   *)
(* tokens stored and issued, the blocks already on the blocker calendar    *)
(* and the number of runs. delta says what a listing with a sync token can *)
(* hold: "any" events (they changed since the token was issued, in ways    *)
(* the family enumerates), or none because the calendars are "unchanged".  *)
(* The families keep each state space small.                               *)

Event(id, status, start, end, recurrence, attendees) ==
    [id |-> id, status |-> status, start |-> start, end |-> end,
     recurrence |-> recurrence, attendees |-> attendees]

Morning == DateTime("2025-01-10T09:00:00Z", "UTC")
Ten == DateTime("2025-01-10T10:00:00Z", "UTC")
TenPacific == DateTime("2025-01-10T10:00:00Z", "America/Los_Angeles")
Friday == DateOnly("2025-01-10")
Saturday == DateOnly("2025-01-11")
AprilFirst == DateOnly("2025-04-01")
AprilSecond == DateOnly("2025-04-02")
AprilSecondOne == DateTime("2025-04-02T01:00:00Z", "UTC")
Daily == Arr(<<"RRULE:FREQ=DAILY">>)
Weekly == Arr(<<"RRULE:FREQ=WEEKLY">>)

\* the same ids from both calendars, confirmed and cancelled
DedupEvents ==
    { Event(id, status, Morning, Ten, Null, Null)
      : id \in {"par", "inst"}, status \in {"confirmed", "cancelled"} }
    \cup { Event("near", "confirmed", Morning, Ten, Null, Null) }

\* one event whose end or recurrence changes, in both kinds of value
ChangeEvents ==
    { Event("par", "confirmed", Morning, end, rec, Arr(<<homeEmail>>))
      : end \in {Ten, TenPacific}, rec \in {Null, Daily} }
    \cup { Event("par", "confirmed", Friday, end, Null, Arr(<<workEmail>>))
           : end \in {Friday, Saturday} }

\* an instance around the horizon, and its parent
HorizonEvents ==
    { Event("inst", status, start, start, Null, Null)
      : status \in {"confirmed", "cancelled"},
        start \in {AprilFirst, AprilSecond, AprilSecondOne} }
    \cup { Event("par", "confirmed", Morning, Ten, Weekly, Null) }

\* a feed of one event, confirmed or cancelled
FeedEvents ==
    { Event("par", status, Morning, Ten, Null, Null)
      : status \in {"confirmed", "cancelled"} }

\* one event in two versions and its cancellation, and an instance of it
IdemEvents ==
    { Event("par", "confirmed", Morning, end, Daily, Null) : end \in {Ten, TenPacific} }
    \cup { Event("par", "cancelled", Morning, Ten, Daily, Null),
           Event("inst", "confirmed", Morning, Ten, Null, Null) }

\* the blocks earlier runs can have left for a set of events: at most one
\* for each description
BlocksOf(evs) ==
    LET live == {e \in evs : e.status # "cancelled"}
        picks == { f \in [Ids -> live \cup {Null}]
                   : \A id \in Ids : f[id] # Null => f[id].id = id }
        rank(id) == Cardinality({j \in Ids : IdText[j] = IdText[id] \/ Len(IdText[j]) < Len(IdText[id])})
    IN  { { SetField(NewBlock(f[id]), "id",
                     Cardinality({j \in Ids : f[j] # Null /\ rank(j) <= rank(id)}))
            : id \in {j \in Ids : f[j] # Null} }
          : f \in picks }

NoTokens == [c \in SourceCals |-> Undefined]
StoredTokens == [SourceCals -> {Undefined, "token1"}]

EnvDedup ==
    [events |-> DedupEvents, clock |-> {3600}, tokens |-> {}, stored |-> {NoTokens},
     runs |-> 1, delta |-> "any"]
EnvChange ==
    [events |-> ChangeEvents, clock |-> {3600}, tokens |-> {}, stored |-> {NoTokens},
     runs |-> 1, delta |-> "any"]
EnvHorizon ==
    [events |-> HorizonEvents, clock |-> Clock, tokens |-> {}, stored |-> {NoTokens},
     runs |-> 1, delta |-> "any"]
EnvFeed ==
    [events |-> FeedEvents, clock |-> {3600}, tokens |-> {"token2"},
     stored |-> StoredTokens, runs |-> 1, delta |-> "any"]
EnvIdem ==
    [events |-> IdemEvents, clock |-> {3600}, tokens |-> {}, stored |-> {NoTokens},
     runs |-> MaxRuns, delta |-> "any"]

\* one event that stays as it is on both source calendars over two runs; the
\* service issues a sync token with every complete listing
RetryEvents == { Event("par", "confirmed", Morning, Ten, Null, Null) }
EnvRetry ==
    [events |-> RetryEvents, clock |-> {3600}, tokens |-> {"token2"},
     stored |-> {NoTokens}, runs |-> 2, delta |-> "unchanged",
     held |-> <<Event("par", "confirmed", Morning, Ten, Null, Null)>>]

(* History, for the properties only: per run, the insert calls issued for  *)
(* each id, what each fetch returned, the ids each pass found without a    *)
(* block and wanted one for, the iterations of each pass, and per id the   *)
(* versions of the event the reconciler handled and whether every call of  *)
(* theirs succeeded; the last two also for the run before; the calendar    *)
(* whose fetch failed; the searches each pass sent for each id; the ids    *)
(* whose insert was rejected, also for the run before, and the mode of the *)
(* run before.                                                             *)

NoCreates == [id \in Ids |-> 0]
NoFeed == [c \in SourceCals |-> Null]
NoHistory ==
    [creates |-> NoCreates, feed |-> NoFeed,
     wanted |-> [c \in SourceCals |-> {}],
     visited |-> [c \in SourceCals |-> 0],
     seen |-> [id \in Ids |-> {}], clean |-> [id \in Ids |-> TRUE],
     prevSeen |-> [id \in Ids |-> {}], prevClean |-> [id \in Ids |-> TRUE],
     fatal |-> "none",
     searched |-> [c \in SourceCals |-> [id \in Ids |-> 0]],
     failed |-> {}, prevFailed |-> {}, prevMode |-> "none"]

\* the fields of an event the reconciler compares and copies
Core(event) ==
    [status |-> event.status, start |-> event.start, end |-> event.end,
     recurrence |-> event.recurrence]

Families ==
    [dedup |-> EnvDedup, change |-> EnvChange, horizon |-> EnvHorizon,
     feed |-> EnvFeed, idem |-> EnvIdem, retry |-> EnvRetry]

----------------------------------------------------------------------------
(* The change feed: fetchEventsByToken and fetchEventsByTimeWindow. The    *)
(* variable fetch is the frame of the running call: its calendar, the      *)
(* options of its list calls, its local copy of the stored tokens, the     *)
(* events accumulated and the page token. retries counts the recursive     *)
(* calls; delivered (history) is what the pages of the current call held;  *)
(* dropped (history) is what the call that was abandoned had accumulated;  *)
(* atEntry (history) is the token map when the outer call began.           *)

WindowDays == 90

NoFetch == [kind |-> "none"]

\* lines 407-436: the frame of fetchEventsByToken(calendarId, fullSync)
TokenFrame(calendarId, fullSync, store, today, retries, atEntry) ==
    [kind |-> "token", cal |-> calendarId, fullSync |-> fullSync, local |-> store,
     options |-> IF ~fullSync /\ store[calendarId] # Undefined
                 THEN [maxResults |-> 100, syncToken |-> store[calendarId]]
                 ELSE [maxResults |-> 100,
                       timeMin |-> GetRelativeDate(0 - PastDays, today)],
     evts |-> <<>>, pageToken |-> Undefined, pages |-> 0,
     retries |-> retries, delivered |-> <<>>, dropped |-> <<>>,
     atEntry |-> atEntry]

\* a windowed fetch that sends the stored sync token along
WindowFrameWithToken(calendarId, today) ==
    [kind |-> "window", cal |-> calendarId,
     options |-> [timeMin |-> today, timeMax |-> today + WindowDays * SecPerDay,
                  syncToken |-> syncTokens[calendarId]],
     evts |-> <<>>, pageToken |-> Undefined, pages |-> 0]

\* lines 352-362 with the window of proactiveEntryPoint (lines 40-42)
WindowFrame(calendarId, today) ==
    [kind |-> "window", cal |-> calendarId,
     options |-> [timeMin |-> today, timeMax |-> today + WindowDays * SecPerDay],
     evts |-> <<>>, pageToken |-> Undefined, pages |-> 0]

\* what is left to list of an unchanged calendar: with a sync token nothing
\* has changed since the token was issued; without one, the events of the
\* calendar not yet listed by the earlier pages
Remaining ==
    LET held == Families[env].held
    IN  IF "syncToken" \in DOMAIN fetch.options
        THEN <<>>
        ELSE SubSeq(held, Len(fetch.evts) + 1, Len(held))

\* the pages Calendar.Events.list(calendarId, options) can answer with: some
\* events, a next page token or none, and on the last page a sync token or
\* none. Of an unchanged calendar the pages list what remains, the last one
\* the rest, with a sync token.
Pages(room, more) ==
    IF Families[env].delta = "unchanged"
    THEN { p \in { [items |-> SubSeq(Remaining, 1, k), nextPageToken |-> npt,
                     nextSyncToken |-> nst]
                    : k \in 0..Len(Remaining),
                      npt \in (IF more THEN {Undefined, "next"} ELSE {Undefined}),
                      nst \in Families[env].tokens }
           : p.nextPageToken = Undefined => Len(p.items) = Len(Remaining) }
    ELSE { [items |-> items, nextPageToken |-> npt, nextSyncToken |-> nst]
           : items \in UNION { [1..n -> Families[env].events] : n \in 0..room },
             npt \in (IF more THEN {Undefined, "next"} ELSE {Undefined}),
             nst \in {Undefined} \cup Families[env].tokens }

EmptyCache == [id \in Ids |-> NotCached]

NoIteration == [end |-> "none"]

\* the events fetched so far in this run
Fetched == Len(events[schedulerCal]) + Len(events[homeCal]) + Len(fetch.evts)

\* the return of a fetch to its entry point: the next fetch (lines 14-18,
\* 45-49), then processCalendar for the scheduler calendar (lines 22, 53)
FetchReturn(calendarId, evts) ==
    /\ events' = [events EXCEPT ![calendarId] = evts]
    /\ IF calendarId = schedulerCal
       THEN /\ pc' = "fetch"
            /\ src' = homeCal
            /\ fetch' = IF mode = "reactive"
                        THEN TokenFrame(homeCal, FALSE, syncTokens', now, 0, syncTokens')
                        ELSE WindowFrame(homeCal, now)
            /\ UNCHANGED <<idx, blockLookupCache>>
       ELSE /\ pc' = "process"
            /\ src' = schedulerCal
            /\ fetch' = NoFetch
            /\ idx' = 1
            /\ blockLookupCache' = EmptyCache

----------------------------------------------------------------------------
(* The initial states. *)

InitWith(family) ==
    /\ env = family
    /\ pc = "idle"
    /\ mode = "reactive"
    /\ src = schedulerCal
    /\ runs = 0
    /\ now \in Families[family].clock
    /\ syncTokens \in Families[family].stored
    /\ fetch = NoFetch
    /\ events = [c \in SourceCals |-> <<>>]
    /\ idx = 0
    /\ blockLookupCache = EmptyCache
    /\ crossCalendarBlockTracker = {}
    /\ blocker \in BlocksOf(Families[family].events)
    /\ unindexed = {}
    /\ last = NoIteration
    /\ hist = NoHistory

InitDedup == InitWith("dedup")
InitChange == InitWith("change")
InitHorizon == InitWith("horizon")
InitFeed == InitWith("feed")
InitIdem == InitWith("idem")
InitRetry == InitWith("retry")

Init == InitDedup \/ InitChange \/ InitHorizon \/ InitFeed \/ InitIdem \/ InitRetry

----------------------------------------------------------------------------
(* The actions. *)

\* what an entry point sets up before its first fetch (lines 6-11, 34-42)
EnterRun(m, today) ==
    /\ pc \in {"idle", "done", "aborted"}
    /\ runs < Families[env].runs
    /\ today >= now
    /\ runs' = runs + 1
    /\ now' = today
    /\ mode' = m
    /\ src' = schedulerCal
    /\ pc' = "fetch"
    /\ crossCalendarBlockTracker' = {}
    /\ events' = [c \in SourceCals |-> <<>>]
    /\ idx' = 0
    /\ blockLookupCache' = EmptyCache
    /\ unindexed' = {}
    /\ last' = NoIteration
    /\ hist' = [NoHistory EXCEPT !.prevSeen = hist.seen, !.prevClean = hist.clean,
                                 !.prevFailed = hist.failed,
                                 !.prevMode = IF runs = 0 THEN "none" ELSE mode]
    /\ UNCHANGED <<env, syncTokens, blocker>>

\* lines 5-14: the reactive run begins with the fetch of the scheduler calendar
reactiveEntryPoint ==
    \E today \in Families[env].clock :
        /\ EnterRun("reactive", today)
        /\ fetch' = TokenFrame(schedulerCal, FALSE, syncTokens, today, 0, syncTokens)

\* lines 33-45: the proactive run begins with the windowed fetch of the
\* scheduler calendar
proactiveEntryPoint ==
    \E today \in Families[env].clock :
        /\ EnterRun("proactive", today)
        /\ fetch' = WindowFrame(schedulerCal, today)

\* the answers to the list call of fetchEventsByToken: a page, the token
\* rejected (only a request that sends one), or another failure
TokenListAnswers ==
    { [kind |-> "page", page |-> p]
      : p \in { q \in Pages(MaxEvents - Fetched, fetch.pages + 1 < MaxPages)
                : q.nextPageToken = Undefined \/ q.nextSyncToken = Undefined } }
    \cup (IF "syncToken" \in DOMAIN fetch.options THEN {[kind |-> "tokenInvalid"]} ELSE {})
    \cup {[kind |-> "error"]}

\* a fallback that drops the whole token map
ClearTokenAll(tokens, calendarId) == [c \in DOMAIN tokens |-> Undefined]

\* lines 445-446: delete syncTokens[calendarId], and the map is stored
ClearToken(tokens, calendarId) == [tokens EXCEPT ![calendarId] = Undefined]

\* a fetch whose failure is caught and that returns what it has
FetchFatalSkipped ==
    /\ UNCHANGED syncTokens
    /\ FetchReturn(fetch.cal, fetch.evts)

\* lines 369-370, 448-449: the exception of the list call is thrown again and
\* leaves the fetch and the entry point
FetchFatal ==
    /\ pc' = "aborted"
    /\ UNCHANGED <<src, syncTokens, fetch, events, idx, blockLookupCache>>

\* a write-back that stores whatever the last page carries
StoreTokenAlways(stored, local, calendarId, nextSyncToken) ==
    [local EXCEPT ![calendarId] = nextSyncToken]

\* lines 461-464: the token of the last page is set in the map read when the
\* call began (local), and that map is written back; without a token nothing
\* is written and what is stored stays
StoreToken(stored, local, calendarId, nextSyncToken) ==
    IF nextSyncToken # Undefined
    THEN [local EXCEPT ![calendarId] = nextSyncToken]
    ELSE stored

\* lines 438-466: one iteration of the page loop of fetchEventsByToken
ListByToken ==
    /\ pc = "fetch"
    /\ fetch.kind = "token"
    /\ \E ans \in TokenListAnswers :
        CASE ans.kind = "error" ->
                /\ hist' = [hist EXCEPT !.fatal = fetch.cal]
                /\ FetchFatal
          [] ans.kind = "tokenInvalid" ->
                /\ syncTokens' = ClearToken(fetch.local, fetch.cal)
                /\ fetch' = [TokenFrame(fetch.cal, TRUE, syncTokens', now,
                                        fetch.retries + 1, fetch.atEntry)
                                EXCEPT !.dropped = fetch.evts]
                /\ UNCHANGED <<pc, src, events, idx, blockLookupCache, hist>>
          [] ans.kind = "page" /\ ans.page.nextPageToken # Undefined ->
                /\ fetch' = [fetch EXCEPT !.evts = @ \o ans.page.items,
                                          !.delivered = @ \o ans.page.items,
                                          !.pageToken = ans.page.nextPageToken,
                                          !.options = SetField(@, "pageToken", ans.page.nextPageToken),
                                          !.pages = @ + 1]
                /\ UNCHANGED <<pc, src, syncTokens, events, idx, blockLookupCache, hist>>
          [] ans.kind = "page" /\ ans.page.nextPageToken = Undefined ->
                /\ syncTokens' = StoreToken(syncTokens, fetch.local, fetch.cal,
                                            ans.page.nextSyncToken)
                /\ hist' = [hist EXCEPT !.feed[fetch.cal] =
                               [retries |-> fetch.retries,
                                delivered |-> fetch.delivered \o ans.page.items,
                                dropped |-> fetch.dropped,
                                atEntry |-> fetch.atEntry,
                                before |-> syncTokens,
                                after |-> syncTokens',
                                nextSyncToken |-> ans.page.nextSyncToken]]
                /\ FetchReturn(fetch.cal, fetch.evts \o ans.page.items)
    /\ UNCHANGED <<mode, runs, now, env, crossCalendarBlockTracker, blocker, unindexed, last>>

\* the answers to the list call of fetchEventsByTimeWindow
WindowListAnswers ==
    { [kind |-> "page", page |-> p]
      : p \in Pages(MaxEvents - Fetched, fetch.pages + 1 < MaxPages) }
    \cup {[kind |-> "error"]}

\* lines 364-380: one iteration of the page loop of fetchEventsByTimeWindow
ListByWindow ==
    /\ pc = "fetch"
    /\ fetch.kind = "window"
    /\ \E ans \in WindowListAnswers :
        CASE ans.kind = "error" ->
                /\ hist' = [hist EXCEPT !.fatal = fetch.cal]
                /\ FetchFatal
          [] ans.kind = "page" /\ ans.page.nextPageToken # Undefined ->
                /\ fetch' = [fetch EXCEPT !.evts = @ \o ans.page.items,
                                          !.pageToken = ans.page.nextPageToken,
                                          !.options = SetField(@, "pageToken", ans.page.nextPageToken),
                                          !.pages = @ + 1]
                /\ UNCHANGED <<pc, src, events, idx, blockLookupCache, hist>>
          [] ans.kind = "page" /\ ans.page.nextPageToken = Undefined ->
                /\ hist' = [hist EXCEPT !.feed[fetch.cal] =
                               [retries |-> 0, delivered |-> fetch.evts \o ans.page.items,
                                atEntry |-> syncTokens,
                                nextSyncToken |-> ans.page.nextSyncToken]]
                /\ FetchReturn(fetch.cal, fetch.evts \o ans.page.items)
    /\ UNCHANGED <<mode, runs, now, env, syncTokens, crossCalendarBlockTracker,
                   blocker, unindexed, last>>

\* the number of insert calls among the calls of an iteration
Inserts(calls) == Cardinality({i \in 1..Len(calls) : calls[i].op = "insert"})

\* the ids of the insert calls of an iteration that the service rejected
Rejected(calls) ==
    {calls[i].id : i \in {j \in 1..Len(calls) : calls[j].op = "insert" /\ ~calls[j].ok}}

\* the searches for id among the calls of an iteration
Searches(calls, id) ==
    Cardinality({i \in 1..Len(calls) : calls[i].op = "list" /\ calls[i].id = id})

\* every call of an iteration on the blocker calendar succeeded
AllOk(calls) == \A i \in 1..Len(calls) : calls[i].cal = blockerCal => calls[i].ok

\* lines 85-232: processCalendar handles events[idx]; an exception leaves the
\* loop, processCalendar and the entry point
ProcessEvent ==
    /\ pc = "process"
    /\ idx <= Len(events[src])
    /\ LET event == events[src][idx]
           st == [cache |-> blockLookupCache, tracker |-> crossCalendarBlockTracker,
                  blocker |-> blocker, unindexed |-> unindexed, calls |-> <<>>,
                  end |-> "", parentBlock |-> NotLooked, matchingBlock |-> NotLooked]
       IN  \E r \in LoopBody(st, event, now, src, src = schedulerCal) :
               /\ blockLookupCache' = r.cache
               /\ crossCalendarBlockTracker' = r.tracker
               /\ blocker' = r.blocker
               /\ unindexed' = r.unindexed
               /\ pc' = IF r.end = "threw" THEN "aborted" ELSE pc
               /\ last' = [end |-> r.end, src |-> src, event |-> event,
                           parentBlock |-> r.parentBlock,
                           matchingBlock |-> r.matchingBlock,
                           calls |-> r.calls,
                           tracked |-> Tracked(crossCalendarBlockTracker, event.id)]
               /\ hist' = [hist EXCEPT
                     !.creates[event.id] = @ + Inserts(r.calls),
                     !.visited[src] = @ + 1,
                     !.wanted[src] = IF /\ r.end = "reconciled"
                                        /\ Falsy(r.matchingBlock)
                                        /\ event.status # "cancelled"
                                     THEN @ \cup {event.id} ELSE @,
                     !.seen[event.id] = IF r.end = "reconciled"
                                        THEN @ \cup {Core(event)} ELSE @,
                     !.clean[event.id] = @ /\ AllOk(r.calls),
                     !.failed = @ \cup Rejected(r.calls),
                     !.searched[src] = [id \in Ids |-> @[id] + Searches(r.calls, id)]]
    /\ idx' = idx + 1
    /\ UNCHANGED <<mode, src, runs, now, env, syncTokens, fetch, events>>

\* lines 22-26, 53-57, 234: processCalendar returns; the home calendar is
\* processed next with a new cache, and then the entry point returns
processCalendarReturn ==
    /\ pc = "process"
    /\ idx > Len(events[src])
    /\ IF src = schedulerCal
       THEN /\ src' = homeCal
            /\ idx' = 1
            /\ blockLookupCache' = EmptyCache
            /\ pc' = pc
       ELSE /\ pc' = "done"
            /\ UNCHANGED <<src, idx, blockLookupCache>>
    /\ UNCHANGED <<mode, runs, now, env, syncTokens, fetch, events,
                   crossCalendarBlockTracker, blocker, unindexed, last, hist>>

Next ==
    \/ reactiveEntryPoint
    \/ proactiveEntryPoint
    \/ ListByToken
    \/ ListByWindow
    \/ ProcessEvent
    \/ processCalendarReturn

Spec == Init /\ [][Next]_vars
SpecDedup == InitDedup /\ [][Next]_vars
SpecChange == InitChange /\ [][Next]_vars
SpecHorizon == InitHorizon /\ [][Next]_vars
SpecFeed == InitFeed /\ [][Next]_vars
SpecIdem == InitIdem /\ [][Next]_vars
SpecRetry == InitRetry /\ [][Next]_vars

----------------------------------------------------------------------------
(* areDatesEqual on its own: the initial states draw two start/end values  *)
(* of the data model (absent, date-only, date-time with zone) and the one  *)
(* action compares them.                                                   *)

DateValues ==
    {Null}
    \cup { DateOnly(d) : d \in {"2025-01-10", "2025-01-11", "2025-04-01", "2025-04-02"} }
    \cup { DateTime(t, z) : t \in {"2025-01-10T09:00:00Z", "2025-01-10T10:00:00Z"},
                            z \in {"UTC", "America/Los_Angeles"} }

InitDates ==
    /\ env = "dates"
    /\ pc = "idle"
    /\ mode = "reactive"
    /\ src = schedulerCal
    /\ runs = 0
    /\ now = 0
    /\ syncTokens = NoTokens
    /\ fetch = NoFetch
    /\ events = [c \in SourceCals |-> <<>>]
    /\ idx = 0
    /\ blockLookupCache = EmptyCache
    /\ crossCalendarBlockTracker = {}
    /\ blocker = {}
    /\ unindexed = {}
    /\ hist = NoHistory
    /\ \E date1 \in DateValues, date2 \in DateValues :
          last = [end |-> "dates", date1 |-> date1, date2 |-> date2]

CompareDates ==
    /\ last.end = "dates"
    /\ last' = [end |-> "compared", date1 |-> last.date1, date2 |-> last.date2,
                equal |-> areDatesEqual(last.date1, last.date2)]
    /\ UNCHANGED <<pc, mode, src, runs, now, env, syncTokens, fetch, events, idx,
                   blockLookupCache, crossCalendarBlockTracker, blocker, unindexed,
                   hist>>

SpecDates == InitDates /\ [][CompareDates]_vars

----------------------------------------------------------------------------
(* One pass of processCalendar on its own, for the comparison of orders:   *)
(* the initial states draw the blocker calendar, the source and a list of  *)
(* two events with different ids, and the one action runs the pass on the  *)
(* list and on the reversed list, from the same calendar, with a service   *)
(* that accepts every call and a search that shows every block.            *)

\* the state a loop iteration starts from, given what the one before left
IterationStart(st) ==
    [st EXCEPT !.calls = <<>>, !.end = "", !.parentBlock = NotLooked,
               !.matchingBlock = NotLooked, !.unindexed = {}]

\* the outcomes of an iteration in which every call succeeded
Accepted(outcomes) ==
    {r \in outcomes : r.end # "threw" /\ \A i \in 1..Len(r.calls) : r.calls[i].ok}

\* lines 84-232: the loop of processCalendar over evs from its i-th event,
\* from each of the states sts
RECURSIVE processCalendar(_, _, _, _)
processCalendar(sts, evs, i, sourceCalId) ==
    IF i > Len(evs)
    THEN sts
    ELSE processCalendar(
             UNION { Accepted(LoopBody(IterationStart(st), evs[i], now, sourceCalId,
                                       sourceCalId = schedulerCal))
                     : st \in sts },
             evs, i + 1, sourceCalId)

\* the blocks a pass over evs can leave, without the ids the service gave
BlocksAfterPass(evs, sourceCalId) ==
    LET st == [cache |-> EmptyCache, tracker |-> {}, blocker |-> blocker,
               unindexed |-> {}, calls |-> <<>>, end |-> "",
               parentBlock |-> NotLooked, matchingBlock |-> NotLooked]
    IN  { {RemoveField(b, "id") : b \in r.blocker}
          : r \in processCalendar({st}, evs, 1, sourceCalId) }

Reversed(evs) == [i \in 1..Len(evs) |-> evs[Len(evs) + 1 - i]]

InitOrder ==
    /\ env = "order"
    /\ pc = "process"
    /\ mode = "reactive"
    /\ src \in SourceCals
    /\ runs = 1
    /\ now = 3600
    /\ syncTokens = NoTokens
    /\ fetch = NoFetch
    /\ \E a \in DedupEvents, b \in DedupEvents :
          /\ a.id # b.id
          /\ events = [c \in SourceCals |-> IF c = src THEN <<a, b>> ELSE <<>>]
    /\ idx = 1
    /\ blockLookupCache = EmptyCache
    /\ crossCalendarBlockTracker = {}
    /\ blocker \in BlocksOf(DedupEvents)
    /\ unindexed = {}
    /\ hist = NoHistory
    /\ last = [end |-> "lists"]

PassInBothOrders ==
    /\ last.end = "lists"
    /\ last' = [end |-> "ordered",
                forward |-> BlocksAfterPass(events[src], src),
                backward |-> BlocksAfterPass(Reversed(events[src]), src)]
    /\ UNCHANGED <<pc, mode, src, runs, now, env, syncTokens, fetch, events, idx,
                   blockLookupCache, crossCalendarBlockTracker, blocker, unindexed,
                   hist>>

SpecOrder == InitOrder /\ [][PassInBothOrders]_vars

----------------------------------------------------------------------------
(* The properties. *)

\* the blocks of the blocker calendar whose description is id
BlocksFor(id) == {b \in blocker : b.description = id}

\* the calls of the last iteration that write: on the blocker calendar, and
\* on any calendar
BlockerWrites(calls) ==
    SelectSeq(calls, LAMBDA c : c.cal = blockerCal /\ c.op # "list")
Writes(calls) == SelectSeq(calls, LAMBDA c : c.op # "list")

Iterated == last.end # "none"
Reconciled == last.end = "reconciled"

(* C1: within one run at most one insert is issued on the blocker calendar *)
(* for every event id, whatever the two lists hold and whatever the search *)
(* returns; and an id that a pass hands to the reconciler not cancelled    *)
(* and finds no block for (in one pass or in both) gets exactly one.       *)
C1_AtMostOneCreate ==
    \A id \in Ids :
        /\ hist.creates[id] <= 1
        /\ id \in hist.wanted[schedulerCal] \cup hist.wanted[homeCal]
               => hist.creates[id] = 1

\* both passes wanted a block for the same id, the second while the search
\* did not show the block the first had inserted
C1_Witness ==
    /\ pc = "done"
    /\ \E id \in hist.wanted[schedulerCal] \cap hist.wanted[homeCal] :
          /\ hist.creates[id] = 1
          /\ BlocksFor(id) # {}
          /\ Reconciled /\ last.src = homeCal /\ last.event.id = id
          /\ last.tracked /\ Falsy(last.matchingBlock)

(* C2: a run that starts with at most one block for each description ends  *)
(* with at most one block for each event id, whatever the events and       *)
(* whichever calls fail.                                                   *)
C2_AtMostOneBlock ==
    pc = "done" => \A id \in Ids : Cardinality(BlocksFor(id)) <= 1

\* a block, as opposed to Null, NotCached and NotLooked
IsBlock(v) == "description" \in DOMAIN v

\* the last iteration ran in the pass that is still the current one, so the
\* cache is the one it left
InPass == Iterated /\ last.src = src

(* C3: an event the reconciler handled in one run, not cancelled and in    *)
(* one version, every call on the blocker calendar succeeding, and handles *)
(* again unchanged in the next run: the second run issues no insert,       *)
(* update or remove on the blocker calendar for it, and exactly one block  *)
(* has its id as description.                                              *)
C3_Idempotent ==
    ( /\ runs >= 2
      /\ Reconciled
      /\ last.event.status # "cancelled"
      /\ hist.prevSeen[last.event.id] = {Core(last.event)}
      /\ hist.prevClean[last.event.id]
      /\ hist.seen[last.event.id] = {Core(last.event)}
      /\ hist.clean[last.event.id] )
    => /\ BlockerWrites(last.calls) = <<>>
       /\ hist.creates[last.event.id] = 0
       /\ Cardinality(BlocksFor(last.event.id)) = 1

C5_EndChangeUpdates ==
    ( /\ Reconciled
      /\ last.event.status # "cancelled"
      /\ IsBlock(last.matchingBlock)
      /\ GetObj(last.matchingBlock, "end") # last.event.end
      /\ GetObj(last.matchingBlock, "start") = last.event.start
      /\ GetObj(last.matchingBlock, "recurrence") = last.event.recurrence )
    => /\ Len(BlockerWrites(last.calls)) = 1
       /\ LET update == BlockerWrites(last.calls)[1]
          IN  /\ update.op = "update"
              /\ update.id = last.matchingBlock.id
              /\ GetObj(update.body, "end") = last.event.end
              /\ GetObj(update.body, "start") = GetObj(last.matchingBlock, "start")
              /\ GetObj(update.body, "recurrence") = GetObj(last.matchingBlock, "recurrence")

(* C6: areDatesEqual returns true exactly when both values are absent or   *)
(* both are present with the same raw fields.                              *)
C6_EqualIffIdentical ==
    last.end = "compared" => (last.equal <=> last.date1 = last.date2)

\* The decision table of the reconciler on the lookup of the event's own id:
\* the one write on the blocker calendar it asks for, or none.
TableWrite(event, matchingBlock, tracked) ==
    IF IsBlock(matchingBlock)
    THEN IF event.status = "cancelled" THEN "remove"
         ELSE IF BlockDiffers(matchingBlock, event) THEN "update"
         ELSE "none"
    ELSE IF event.status = "cancelled" THEN "none"
         ELSE IF tracked THEN "none"
         ELSE "insert"

\* the last iteration reconciled its event by the decision table, with the
\* event's own id as the key: the lookup was by that id, and the write is the
\* table's, on the block found or for a block described by that id
ByOwnId ==
    /\ last.matchingBlock # NotLooked
    /\ IsBlock(last.matchingBlock) => last.matchingBlock.description = last.event.id
    /\ LET w == BlockerWrites(last.calls)
           want == TableWrite(last.event, last.matchingBlock, last.tracked)
       IN  IF want = "none"
           THEN w = <<>>
           ELSE /\ Len(w) = 1
                /\ w[1].op = want
                /\ want = "insert" => w[1].body.description = last.event.id
                /\ want # "insert" => w[1].id = last.matchingBlock.id

(* C7: for an event whose id is that of an instance, when the lookup of    *)
(* the parent id gives a block the iteration issues no write at all,       *)
(* whatever the status; when it gives none and the instance starts within  *)
(* the horizon, the event is reconciled by the decision table with its own *)
(* id as the key.                                                          *)
C7_RecurringSuppression ==
    (Iterated /\ last.event.id = "inst" /\ last.parentBlock # NotLooked)
    => /\ IsBlock(last.parentBlock)
          => /\ last.parentBlock.description = "par"
             /\ Writes(last.calls) = <<>>
             /\ last.matchingBlock = NotLooked
             /\ last.end = "parentBlock"
       /\ ( /\ Falsy(last.parentBlock)
            /\ EventStartDate(last.event.start) - now < 91 * SecPerDay )
          => /\ last.end \in {"reconciled", "threw"}
             /\ Reconciled => ByOwnId

\* a cancelled instance that has a block of its own is skipped because its
\* parent has a block
C7_WitnessSuppressed ==
    /\ Iterated
    /\ last.event.id = "inst"
    /\ last.event.status = "cancelled"
    /\ IsBlock(last.parentBlock)
    /\ BlocksFor("inst") # {}
    /\ last.end = "parentBlock"

(* C8: for an instance whose parent has no block, with the start 91 days   *)
(* or more after now (a whole-day offset above 90) no write is issued and  *)
(* the instance's own id is not looked up, also when it is cancelled or    *)
(* has a block; with the start less than 91 days after now (offset 90 or   *)
(* less) the instance is reconciled by the decision table.                 *)
C8_Horizon ==
    ( /\ Iterated
      /\ last.event.id = "inst"
      /\ Falsy(last.parentBlock) )
    => IF EventStartDate(last.event.start) - now >= 91 * SecPerDay
       THEN /\ last.end = "horizon"
            /\ Writes(last.calls) = <<>>
            /\ last.matchingBlock = NotLooked
       ELSE /\ last.end \in {"reconciled", "threw"}
            /\ Reconciled => ByOwnId

\* an instance exactly 90 days out is reconciled: a block is inserted for it
C8_WitnessAtHorizon ==
    /\ Reconciled
    /\ last.event.id = "inst"
    /\ Falsy(last.parentBlock)
    /\ EventStartDate(last.event.start) - now = 90 * SecPerDay
    /\ Len(BlockerWrites(last.calls)) = 1
    /\ BlockerWrites(last.calls)[1].op = "insert"

(* C9: while the retry after a rejected sync token runs, it is the only    *)
(* retry, the token of its calendar is gone from the stored map and the    *)
(* tokens of the other calendars are those stored when the fetch began,    *)
(* its requests send no sync token and the lower bound of 30 days before   *)
(* today, and it holds only the events of its own pages; what the fetch    *)
(* returns after a retry is what the pages of the retry held.              *)
C9_TokenFallback ==
    /\ (pc = "fetch" /\ fetch.kind = "token" /\ (fetch.retries > 0 \/ fetch.fullSync))
       => /\ fetch.retries = 1
          /\ fetch.fullSync
          /\ fetch.atEntry[fetch.cal] # Undefined
          /\ syncTokens[fetch.cal] = Undefined
          /\ \A c \in SourceCals \ {fetch.cal} : syncTokens[c] = fetch.atEntry[c]
          /\ "syncToken" \notin DOMAIN fetch.options
          /\ fetch.options.timeMin = ((now \div SecPerDay) - 30) * SecPerDay
          /\ fetch.evts = fetch.delivered
    /\ \A c \in SourceCals :
          (hist.feed[c] # Null /\ hist.feed[c].retries > 0)
          => /\ hist.feed[c].retries = 1
             /\ events[c] = hist.feed[c].delivered

\* the token was rejected on the second page, after a first page with an
\* event; the retry then returned nothing
C9_Witness ==
    /\ hist.feed[homeCal] # Null
    /\ hist.feed[homeCal].retries = 1
    /\ hist.feed[homeCal].atEntry = [c \in SourceCals |-> "token1"]
    /\ hist.feed[homeCal].dropped # <<>>
    /\ events[homeCal] = <<>>
    /\ syncTokens[schedulerCal] = "token1"
    /\ syncTokens[homeCal] = Undefined

(* C10: the fetch of the home calendar does not begin before every event   *)
(* fetched from the scheduler calendar has been reconciled.                *)
C10_SequentialDrain ==
    (pc = "fetch" /\ fetch.cal = homeCal)
    => hist.visited[schedulerCal] = Len(events[schedulerCal])

\* a write of the last iteration was rejected by the service
WriteFailed == \E i \in 1..Len(last.calls) : last.calls[i].op # "list" /\ ~last.calls[i].ok

\* every event fetched from calendar c has been visited by the loop
Drained(c) == hist.visited[c] = Len(events[c])

(* C11: a rejected write does not end the loop: an iteration that ends     *)
(* early never ends on a rejected write, the iteration with a rejected     *)
(* write is followed by the next event or the next source, and a run that  *)
(* is done has visited every event of both sources.                        *)
C11_WriteFailureAbsorbed ==
    /\ (Iterated /\ last.end = "threw")
       => /\ pc = "aborted"
          /\ Len(last.calls) > 0
                => \/ last.calls[Len(last.calls)].op = "list"
                   \/ last.calls[Len(last.calls)].ok
    /\ (Iterated /\ WriteFailed /\ last.end # "threw")
       => /\ pc \in {"process", "done"}
          /\ pc = "process" /\ InPass => idx = hist.visited[src] + 1
    /\ pc = "done" => Drained(schedulerCal) /\ Drained(homeCal)

\* a run in which the insert for an event of the scheduler calendar was
\* rejected went on to the home calendar and ended with all events visited
C11_Witness ==
    /\ pc = "done"
    /\ \E id \in Ids : ~hist.clean[id] /\ hist.creates[id] = 1 /\ BlocksFor(id) = {}
    /\ Len(events[schedulerCal]) = 1
    /\ Len(events[homeCal]) = 1
    /\ hist.visited[homeCal] = 1

\* every call of this run on the blocker calendar succeeded
Healthy == \A id \in Ids : hist.clean[id]

(* C12: when the insert for a not-cancelled event was rejected in a        *)
(* reactive run and the next run is reactive too, the event unchanged on   *)
(* its calendar and every call succeeding, that run issues the insert      *)
(* again and a block for the event exists when it is done.                 *)
C12_RetryNextRun ==
    ( /\ runs >= 2
      /\ pc = "done"
      /\ mode = "reactive"
      /\ hist.prevMode = "reactive"
      /\ Healthy )
    => \A id \in hist.prevFailed :
          BlocksFor(id) # {} /\ (hist.creates[id] = 0 => \E b \in BlocksFor(id) : b.id \notin unindexed)

(* C13: after a list call of a fetch failed with another error than the   *)
(* rejected token, the run is over: the fetch that failed is still the     *)
(* current one and has returned nothing, a failure in the fetch of the     *)
(* scheduler calendar leaves the home calendar unfetched, and no event of  *)
(* either source has been handed to the loop, so no write was issued.      *)
C13_FetchFatalAborts ==
    hist.fatal # "none"
    => /\ pc = "aborted"
       /\ fetch # NoFetch
       /\ fetch.cal = hist.fatal
       /\ hist.feed[hist.fatal] = Null
       /\ events[hist.fatal] = <<>>
       /\ hist.fatal = schedulerCal => hist.feed[homeCal] = Null /\ events[homeCal] = <<>>
       /\ \A c \in SourceCals : hist.visited[c] = 0
       /\ \A id \in Ids : hist.creates[id] = 0
       /\ last = NoIteration

\* the fetch of the home calendar failed on its second page, after the
\* scheduler calendar had delivered an event: that event is never visited
C13_Witness ==
    /\ hist.fatal = homeCal
    /\ pc = "aborted"
    /\ fetch.pages = 1
    /\ Len(events[schedulerCal]) = 1
    /\ hist.visited[schedulerCal] = 0

(* C14: while a call of fetchEventsByToken lists its pages, and when it    *)
(* has failed with another error than the rejected token, the stored token *)
(* map is what it was when the call began; when the call returns, the map  *)
(* differs from what it was only in the token of the calendar fetched, and *)
(* only when the last page carried a sync token, which is then the one     *)
(* stored.                                                                 *)
C14_WriteBack ==
    /\ (pc = "fetch" /\ fetch.kind = "token") => syncTokens = fetch.local
    /\ (hist.fatal # "none" /\ fetch.kind = "token") => syncTokens = fetch.local
    /\ \A c \in SourceCals :
          (mode = "reactive" /\ hist.feed[c] # Null)
          => LET f == hist.feed[c]
             IN  /\ \A d \in SourceCals \ {c} : f.after[d] = f.before[d]
                 /\ f.after[c] = IF f.nextSyncToken # Undefined
                                 THEN f.nextSyncToken
                                 ELSE f.before[c]

\* a fetch with a stored token whose last page carried no sync token: the
\* stored token stays
C14_WitnessNoToken ==
    /\ mode = "reactive"
    /\ hist.feed[schedulerCal] # Null
    /\ hist.feed[schedulerCal].nextSyncToken = Undefined
    /\ hist.feed[schedulerCal].retries = 0
    /\ hist.feed[schedulerCal].before[schedulerCal] = "token1"
    /\ syncTokens[schedulerCal] = "token1"

(* C15: no step of a proactive run changes the stored token map; its       *)
(* fetches are windowed ones, whose requests carry the bounds of the       *)
(* window and no sync token; and after a windowed fetch failed the run is  *)
(* over with that fetch still the current one.                             *)
C15_WindowedLeavesSyncState ==
    [][ mode' = "proactive"
        => /\ syncTokens' = syncTokens
           /\ fetch'.kind \in {"window", "none"}
           /\ fetch'.kind = "window"
                 => /\ "syncToken" \notin DOMAIN fetch'.options
                    /\ fetch'.options.timeMin = now'
                    /\ fetch'.options.timeMax = now' + 90 * SecPerDay
           /\ hist'.fatal # "none" => pc' = "aborted" /\ fetch'.cal = hist'.fatal ]_vars

\* a proactive run is done, the service had a sync token on the last page
\* of a windowed listing, and the stored tokens are still those of before
C15_Witness ==
    /\ mode = "proactive"
    /\ pc = "done"
    /\ hist.feed[schedulerCal].nextSyncToken = "token2"
    /\ syncTokens = [c \in SourceCals |-> "token1"]

(* C16: a run that ended before it was done ended in a fetch: with a list  *)
(* call of the change feed failing, and with no event of a source's list   *)
(* left unvisited after others of that list were visited.                  *)
C16_TwoOutcomes ==
    pc = "aborted"
    => /\ hist.fatal # "none"
       /\ \A c \in SourceCals : hist.visited[c] \in {0, Len(events[c])}

(* C17: in one pass at most one search is sent for an id; once it was     *)
(* answered the cache of the pass holds an entry for the id; and an        *)
(* iteration that looked an id up, as its event's id or as the parent id,  *)
(* sent a search for it only if the pass had sent none before.             *)
C17_LookupMemoized ==
    /\ \A c \in SourceCals, id \in Ids : hist.searched[c][id] <= 1
    /\ (pc = "process" /\ InPass)
       => \A id \in Ids : hist.searched[src][id] = 1 => blockLookupCache[id] # NotCached
    /\ (Iterated /\ last.end # "threw")
       => /\ last.matchingBlock # NotLooked
             => hist.searched[last.src][last.event.id] = 1
          /\ last.parentBlock # NotLooked
             => hist.searched[last.src][ParentEventId(last.event.id)] = 1

\* the parent was looked up as an event and missed, its insert was rejected,
\* and the lookup of the parent id for the instance was answered by the
\* cache
C17_Witness ==
    /\ Iterated
    /\ last.event.id = "inst"
    /\ last.parentBlock = Null
    /\ blockLookupCache["par"] = Null
    /\ Searches(last.calls, "par") = 0
    /\ hist.searched[last.src]["par"] = 1
    /\ BlocksFor("par") = {}

(* C18: from one blocker calendar, the pass over a list of two events and  *)
(* the pass over the same two events in the other order leave the same set *)
(* of blocks.                                                              *)
C18_OrderIndependent ==
    last.end = "ordered" => last.forward = last.backward

\* the block and the event differ in start, end or recurrence
ValuesDiffer(block, event) ==
    \/ GetObj(block, "start") # event.start
    \/ GetObj(block, "end") # event.end
    \/ GetObj(block, "recurrence") # event.recurrence

(* C19: an iteration that reached the reconciler issued on the blocker     *)
(* calendar the one write of the decision table, or none: a remove for a   *)
(* block found and a cancelled event, an update for a block found that     *)
(* differs from a not-cancelled event in start, end or recurrence, an      *)
(* insert for no block found, a not-cancelled event and an id not in the   *)
(* tracker, and none otherwise.                                            *)
C19_DecisionTable ==
    Reconciled
    => LET w == BlockerWrites(last.calls)
           want == IF IsBlock(last.matchingBlock)
                   THEN IF last.event.status = "cancelled" THEN "remove"
                        ELSE IF ValuesDiffer(last.matchingBlock, last.event) THEN "update"
                        ELSE "none"
                   ELSE IF last.event.status = "cancelled" \/ last.tracked THEN "none"
                        ELSE "insert"
       IN  /\ Len(w) <= 1
           /\ want = "none" => w = <<>>
           /\ want # "none" => Len(w) = 1 /\ w[1].op = want

(* C20: when a reactive run is over, finished or not, every event returned *)
(* by a fetch that changed the stored sync token of its calendar has been  *)
(* handed to the loop of processCalendar.                                  *)
C20_NoDeltaLost ==
    (mode = "reactive" /\ pc \in {"done", "aborted"})
    => \A c \in SourceCals :
          ( /\ hist.feed[c] # Null
            /\ hist.feed[c].after[c] # hist.feed[c].before[c] )
          => Drained(c)

(* C21: while a pass runs, an id whose cache entry is a block has a block  *)
(* with that description on the blocker calendar, and an id whose cache    *)
(* entry is null has none, whichever calls the service rejected.           *)
C21_CacheCoherent ==
    pc = "process"
    => \A id \in Ids :
          /\ IsBlock(blockLookupCache[id]) => BlocksFor(id) # {}
          /\ blockLookupCache[id] = Null => BlocksFor(id) = {}

====
